---------------------------- MODULE Spec2Model ----------------------------
(***************************************************************************)
(* A model of bmrb-io/doi-assignment: the ANVL codec (anvl.py) and the     *)
(* DOI assignment script (assign.py): identifier derivation, the           *)
(* create-or-update retry protocol, withdraw, and the batch driver.        *)
(*                                                                         *)
(* Text is modelled as sequences: ANVL text as sequences of code points    *)
(* (the codec works on ord()/chr()), accession codes and identifiers as    *)
(* sequences of one-character strings.                                     *)
(***************************************************************************)
EXTENDS Integers, Sequences, FiniteSets, TLC

VARIABLES
    \* ---- anvl.py ----
    d,            \* the mapping handed to escape_dictionary: a sequence of <<key, value>>
    text,         \* escape_dictionary(d), once it ran
    result,       \* unescape_dictionary(text), once it ran
    anvlPc,       \* "build", "escaped", "unescaped"
    \* ---- determine_doi on a pair of accession codes ----
    codeA, codeB, doiA, doiB,
    \* ---- assign.py: the run ----
    options,      \* the parsed command line
    entries,      \* the selected accession codes
    mainPc,       \* position of __main__
    exitCode,     \* process exit status, NoExit while running
    dryLog,       \* identifiers logged by the dry-run branch
    task,         \* one create_or_update_doi call per dispatched entry
    registry,     \* the remote registry: identifier -> record
    titles,       \* the bibliographic source: entry -> current title
    writeIssued,  \* a registry write request (PUT or POST) has been sent
    \* ---- EZIDSession used call by call ----
    calls,        \* number of EZIDSession method calls made
    posts,        \* withdraw POST requests sent, per identifier
    lastCall      \* outcome of the last withdraw / get_id call

vars == <<d, text, result, anvlPc, codeA, codeB, doiA, doiB, options, entries, mainPc,
          exitCode, dryLog, task, registry, titles, writeIssued, calls, posts,
          lastCall>>

anvlVars == <<d, text, result, anvlPc>>
doiVars == <<codeA, codeB, doiA, doiB>>
runVars == <<options, entries, mainPc, exitCode, dryLog>>
sessionVars == <<calls, posts, lastCall>>
\* what a step of create_or_update_doi never touches
outside == <<anvlVars, doiVars, runVars, sessionVars>>

(***************************************************************************)
(* Bounds of the model                                                     *)
(***************************************************************************)
MaxChars == 3     \* total characters over all keys and values of d
MaxPairs == 2     \* entries of d
MaxDigits == 2    \* digits of an accession number
MaxCalls == 3     \* EZIDSession method calls in one session

(***************************************************************************)
(* anvl.py                                                                 *)
(***************************************************************************)
PERCENT == 37
COLON == 58
CR == 13
LF == 10
VT == 11
SPACE == 32
LowerA == 97

\* the characters the model draws keys and values from
Alphabet == {PERCENT, COLON, CR, LF, VT, SPACE, LowerA}

\* str.isspace() below U+0100 (what str.strip() removes)
Whitespace == {9, 10, 11, 12, 13, 28, 29, 30, 31, 32, 133, 160}

\* the line boundaries of str.splitlines() below U+0100
LineBoundaries == {10, 11, 12, 13, 28, 29, 30, 133}

\* "%02X" of one nibble: 0-9, A-F
HexDigit(n) == IF n < 10 THEN 48 + n ELSE 55 + n

\* [0-9A-Fa-f]
IsHex(c) == (c \in 48..57) \/ (c \in 65..70) \/ (c \in 97..102)

\* int(h, 16) of one hexadecimal digit
HexVal(c) == IF c \in 48..57 THEN c - 48 ELSE IF c \in 65..70 THEN c - 55 ELSE c - 87

\* escape_string with ":" left out of its character class
ReservedNoColon == {PERCENT, CR, LF}

\* the character class [%:\r\n] of escape_string
Reserved == {PERCENT, COLON, CR, LF}

\* the replacement lambda of escape_string: "%%%02X" % ord(c)
EscapeChar(c) == <<PERCENT, HexDigit(c \div 16), HexDigit(c % 16)>>

RECURSIVE escape_string(_)
escape_string(s) ==
    IF s = <<>> THEN <<>>
    ELSE (IF Head(s) \in Reserved THEN EscapeChar(Head(s)) ELSE <<Head(s)>>)
         \o escape_string(Tail(s))

\* re.sub scans left to right and never rescans what it substituted
RECURSIVE unescape_string(_)
unescape_string(s) ==
    IF s = <<>> THEN <<>>
    ELSE IF Len(s) >= 3 /\ s[1] = PERCENT /\ IsHex(s[2]) /\ IsHex(s[3])
         THEN <<16 * HexVal(s[2]) + HexVal(s[3])>> \o unescape_string(SubSeq(s, 4, Len(s)))
         ELSE <<Head(s)>> \o unescape_string(Tail(s))

\* "\n".join(lines)
RECURSIVE JoinLines(_)
JoinLines(lines) ==
    IF lines = <<>> THEN <<>>
    ELSE IF Len(lines) = 1 THEN lines[1]
    ELSE lines[1] \o <<LF>> \o JoinLines(Tail(lines))

\* "%s: %s" % (escape_string(name), escape_string(value))
FormatItem(item) == escape_string(item[1]) \o <<COLON, SPACE>> \o escape_string(item[2])

escape_dictionary(dict) == JoinLines([i \in 1..Len(dict) |-> FormatItem(dict[i])])

\* str.splitlines(): a boundary ends the current line, "\r\n" is one boundary,
\* and no empty line follows a final boundary
RECURSIVE SplitLinesFrom(_, _)
SplitLinesFrom(s, cur) ==
    IF s = <<>> THEN (IF cur = <<>> THEN <<>> ELSE <<cur>>)
    ELSE IF Head(s) \in LineBoundaries
         THEN <<cur>> \o SplitLinesFrom(
                  IF Head(s) = CR /\ Len(s) >= 2 /\ s[2] = LF THEN Tail(Tail(s)) ELSE Tail(s),
                  <<>>)
         ELSE SplitLinesFrom(Tail(s), Append(cur, Head(s)))

splitlines(s) == SplitLinesFrom(s, <<>>)

\* position of the first ":" of l, 0 when there is none
FirstColon(l) ==
    IF \E i \in 1..Len(l) : l[i] = COLON
    THEN CHOOSE i \in 1..Len(l) : l[i] = COLON /\ \A j \in 1..(i - 1) : l[j] # COLON
    ELSE 0

\* l.split(":", 1)
SplitColon(l) ==
    IF FirstColon(l) = 0 THEN <<l>>
    ELSE <<SubSeq(l, 1, FirstColon(l) - 1), SubSeq(l, FirstColon(l) + 1, Len(l))>>

RECURSIVE lstrip(_)
lstrip(s) == IF s # <<>> /\ Head(s) \in Whitespace THEN lstrip(Tail(s)) ELSE s

RECURSIVE rstrip(_)
rstrip(s) ==
    IF s # <<>> /\ s[Len(s)] \in Whitespace THEN rstrip(SubSeq(s, 1, Len(s) - 1)) ELSE s

\* str.strip()
strip(s) == rstrip(lstrip(s))

\* tuple(unescape_string(v).strip() for v in l.split(":", 1))
ParseLine(l) == [i \in 1..Len(SplitColon(l)) |-> strip(unescape_string(SplitColon(l)[i]))]

\* dict[k] = v on an insertion-ordered mapping
DictPut(dict, k, v) ==
    IF \E i \in 1..Len(dict) : dict[i][1] = k
    THEN [i \in 1..Len(dict) |-> IF dict[i][1] = k THEN <<k, v>> ELSE dict[i]]
    ELSE Append(dict, <<k, v>>)

\* dict(iterable of 2-tuples): later items overwrite earlier ones
RECURSIVE DictFromItems(_, _)
DictFromItems(items, acc) ==
    IF items = <<>> THEN acc
    ELSE DictFromItems(Tail(items), DictPut(acc, items[1][1], items[1][2]))

\* dict() raises ValueError on an item that is not a pair; the value returned
\* otherwise is in "value"
unescape_dictionary(t) ==
    LET items == [i \in 1..Len(splitlines(t)) |-> ParseLine(splitlines(t)[i])]
    IN  IF \E i \in 1..Len(items) : Len(items[i]) # 2
        THEN [raised |-> "ValueError", value |-> <<>>]
        ELSE [raised |-> "none", value |-> DictFromItems(items, <<>>)]

\* == on two mappings: the same keys with the same values, in any order
DictEq(a, b) == {a[i] : i \in 1..Len(a)} = {b[i] : i \in 1..Len(b)}

(***************************************************************************)
(* assign.py: identifiers, target URLs, metadata                           *)
(***************************************************************************)
\* config['shoulder']
Shoulder == <<"1", "0", ".", "/">>

\* str.upper() on one character
UpperChar(c) ==
    CASE c = "b" -> "B" [] c = "m" -> "M" [] c = "r" -> "R"
      [] c = "s" -> "S" [] c = "e" -> "E" [] c = "t" -> "T"
      [] OTHER -> c

\* no upper-casing
NoUpper(s) == s

upper(s) == [i \in 1..Len(s) |-> UpperChar(s[i])]

startswith(s, prefix) == Len(s) >= Len(prefix) /\ SubSeq(s, 1, Len(prefix)) = prefix

BMSE == <<"b", "m", "s", "e">>
BMST == <<"b", "m", "s", "t">>
BMR == <<"b", "m", "r">>

\* the third branch of determine_doi: '%sBMR%s' % (shoulder, entry)
BarePrefix == <<"B", "M", "R">>

determine_doi(entry) ==
    IF startswith(entry, BMSE) \/ startswith(entry, BMST) THEN Shoulder \o upper(entry)
    ELSE IF startswith(entry, BMR) THEN Shoulder \o upper(entry)
    ELSE Shoulder \o BarePrefix \o entry

\* content_url of create_or_update_doi: the template and the id it is filled with
content_url(entry) ==
    IF startswith(entry, BMSE) THEN [template |-> "show_data.php", id |-> entry]
    ELSE IF startswith(entry, BMST) THEN [template |-> "show_theory.php", id |-> entry]
    ELSE [template |-> "data_library/summary", id |-> entry]

NoUrl == [template |-> "none", id |-> <<>>]
NoMeta == [identifier |-> <<>>, title |-> "none", publisher |-> "none",
           resourceTypeGeneral |-> "none"]

\* what pynmrstar can hand back for an entry: whether it loads, and how many
\* 'release' and 'entry_author' loops it holds
Bibliographic(title) ==
    [load : {"ok", "ValueError", "IOError"}, release_loops : 0..1,
     author_loops : 0..1, title : {title}]

\* get_entry_metadata: the exception it raises ("none" when it returns) and
\* the document it returns
get_entry_metadata(entry, bib) ==
    IF bib.load = "ValueError" THEN [raised |-> "ValueError", doc |-> NoMeta]
    ELSE IF bib.load = "IOError" THEN [raised |-> "IOError", doc |-> NoMeta]
    ELSE IF bib.release_loops = 0 THEN [raised |-> "IndexError", doc |-> NoMeta]
    ELSE IF bib.author_loops = 0 THEN [raised |-> "IndexError", doc |-> NoMeta]
    ELSE [raised |-> "none",
          doc |-> [identifier |-> determine_doi(entry), title |-> bib.title,
                   publisher |-> "Biological Magnetic Resonance Bank",
                   resourceTypeGeneral |-> "Dataset"]]

(***************************************************************************)
(* The registry (EZID)                                                     *)
(***************************************************************************)
Absent == [status |-> "absent", url |-> NoUrl, meta |-> NoMeta]

\* the answers a request can get: an HTTP status, or ConnectionError (0) when
\* no response arrives
StatusCodes == {200, 302, 500}

\* raise_for_status() left out
RaiseForStatusNever(code) == FALSE

\* Response.raise_for_status(): HTTPError on 4xx and 5xx
RaiseForStatus(code) == code >= 400 /\ code < 600

\* the server acts on a request it answers with 2xx
Applied(code) == code >= 200 /\ code < 300

\* PUT /metadata/<doi>
MetadataStored(rec, doc) ==
    [rec EXCEPT !.meta = doc, !.status = IF rec.status = "absent" THEN "reserved" ELSE @]

\* PUT /doi/<doi> with "doi=...\nurl=..."
UrlRegistered(rec, url) ==
    [rec EXCEPT !.url = url,
                !.status = IF rec.status \in {"absent", "reserved"} THEN "public" ELSE @]

\* POST /id/<doi> with _status: unavailable | withdrawn by author
Withdrawn(rec) == [rec EXCEPT !.status = "unavailable"]

\* the freshly built document and target URL equal what the registry holds
FieldEqual(rec, doc, url) == rec.meta = doc /\ rec.url = url

(***************************************************************************)
(* EZIDSession.create_or_update_doi, one step per statement group          *)
(***************************************************************************)
\* the default of the timeout parameter
BaseDelay == 1

\* the bound the except clause compares timeout with
MaxWait == 128

ConnectionError == 0

\* the timeout grown by addition
DoubleTimeoutLinear(timeout) == timeout + 2

\* timeout = timeout * 2
DoubleTimeout(timeout) == timeout * 2

\* the retry test made after the doubling it guards
RetryAllowedLate(timeout) == timeout <= 2 * MaxWait

\* if timeout <= 128
RetryAllowed(timeout) == timeout <= MaxWait

\* a call of create_or_update_doi(entry) that has not started
NewTask(entry) ==
    [entry |-> entry, pc |-> "queued", timeout |-> BaseDelay, depth |-> 0,
     attempts |-> 0, entry_meta |-> NoMeta, reqs |-> <<>>, fail |-> "none",
     exc |-> "none", backoff |-> 0, lastSleep |-> 0, fsleep |-> 0,
     created |-> 0, errors |-> 0, notLoaded |-> 0, outcome |-> "none"]

\* the frames are gone once the top-level call has returned or raised
Returned(tk) == [NewTask(tk.entry) EXCEPT !.pc = "done", !.exc = tk.exc,
                                          !.outcome = tk.outcome]

\* assign_id(entry_id): enters create_or_update_doi(entry) with timeout=1
CallCreateOrUpdate(tk) ==
    [tk EXCEPT !.pc = "get_entry_metadata", !.timeout = DoubleTimeout(BaseDelay),
               !.depth = 1, !.attempts = 1]

\* entry_meta = self.get_entry_metadata(entry)
GetEntryMetadata(t) ==
    /\ t \in DOMAIN task
    /\ task[t].pc = "get_entry_metadata"
    /\ \E bib \in Bibliographic(titles[task[t].entry]) :
         LET r == get_entry_metadata(task[t].entry, bib)
         IN  task' = [task EXCEPT ![t] =
                 IF r.raised = "none"
                 THEN [@ EXCEPT !.entry_meta = r.doc, !.pc = "put_metadata"]
                 ELSE IF r.raised = "IOError"
                 THEN [@ EXCEPT !.pc = "except_IOError"]
                 ELSE [@ EXCEPT !.exc = r.raised, !.outcome = "raised", !.pc = "finally"]]
    /\ UNCHANGED <<registry, titles, writeIssued, outside>>

\* where a request that was sent leaves the call
AfterRequest(tk, name, code, next) ==
    IF code = ConnectionError
    THEN [tk EXCEPT !.reqs = Append(@, <<name, code>>), !.fail = "network",
                    !.entry_meta = NoMeta, !.pc = "except_IOError"]
    ELSE IF RaiseForStatus(code)
    THEN [tk EXCEPT !.reqs = Append(@, <<name, code>>), !.fail = "http",
                    !.entry_meta = NoMeta, !.pc = "except_HTTPError"]
    ELSE [tk EXCEPT !.reqs = Append(@, <<name, code>>), !.pc = next]

\* r = requests.put(".../metadata/<doi>", data=entry_meta); r.raise_for_status()
PutMetadata(t) ==
    /\ t \in DOMAIN task
    /\ task[t].pc = "put_metadata"
    /\ \E code \in StatusCodes \cup {ConnectionError} :
         /\ task' = [task EXCEPT ![t] = AfterRequest(@, "PUT metadata", code, "put_doi")]
         /\ registry' = IF Applied(code)
                        THEN [registry EXCEPT ![determine_doi(task[t].entry)] =
                                  MetadataStored(@, task[t].entry_meta)]
                        ELSE registry
    /\ writeIssued' = TRUE
    /\ UNCHANGED <<titles, outside>>

\* the success message: logging.info("Created or updated entry: %s")
LogCreated(tk) ==
    IF tk.pc = "created"
    THEN [tk EXCEPT !.created = @ + 1, !.outcome = "created", !.entry_meta = NoMeta,
                    !.pc = "finally"]
    ELSE tk

\* r = requests.put(".../doi/<doi>", data=release_string); r.raise_for_status();
\* logging.info("Created or updated entry")
PutDoi(t) ==
    /\ t \in DOMAIN task
    /\ task[t].pc = "put_doi"
    /\ \E code \in StatusCodes \cup {ConnectionError} :
         /\ task' = [task EXCEPT ![t] =
                         LogCreated(AfterRequest(@, "PUT doi", code, "created"))]
         /\ registry' = IF Applied(code)
                        THEN [registry EXCEPT ![determine_doi(task[t].entry)] =
                                  UrlRegistered(@, content_url(task[t].entry))]
                        ELSE registry
    /\ writeIssued' = TRUE
    /\ UNCHANGED <<titles, outside>>

\* except requests.HTTPError: warn, then sleep and call create_or_update_doi
\* again with the doubled timeout, or log the terminal failure
ExceptHTTPError(t) ==
    /\ t \in DOMAIN task
    /\ task[t].pc = "except_HTTPError"
    /\ task' = [task EXCEPT ![t] =
           IF RetryAllowed(@.timeout)
           THEN [@ EXCEPT !.backoff = @ + task[t].timeout,
                          !.lastSleep = task[t].timeout,
                          !.depth = @ + 1, !.attempts = @ + 1,
                          !.timeout = DoubleTimeout(@),
                          !.reqs = <<>>, !.fail = "none",
                          !.pc = "get_entry_metadata"]
           ELSE [@ EXCEPT !.errors = @ + 1, !.outcome = "failed", !.pc = "finally"]]
    /\ UNCHANGED <<registry, titles, writeIssued, outside>>

\* except IOError: logging.exception("Entry %s not loaded in the DB")
ExceptIOError(t) ==
    /\ t \in DOMAIN task
    /\ task[t].pc = "except_IOError"
    /\ task' = [task EXCEPT ![t] =
           [@ EXCEPT !.notLoaded = @ + 1, !.outcome = "not_loaded", !.pc = "finally"]]
    /\ UNCHANGED <<registry, titles, writeIssued, outside>>

\* finally: time.sleep(1), once in every frame of the recursion as it unwinds;
\* then the top-level call has returned, or raised what no clause caught
Finally(t) ==
    /\ t \in DOMAIN task
    /\ task[t].pc = "finally"
    /\ task' = [task EXCEPT ![t] = [@ EXCEPT !.fsleep = @ + task[t].depth,
                                             !.depth = 0, !.pc = "unwound"]]
    /\ UNCHANGED <<registry, titles, writeIssued, outside>>

\* the call is over: its frames are dropped
Return(t) ==
    /\ t \in DOMAIN task
    /\ task[t].pc = "unwound"
    /\ task' = [task EXCEPT ![t] = Returned(@)]
    /\ UNCHANGED <<registry, titles, writeIssued, outside>>

(***************************************************************************)
(* __main__: option parsing, entry selection, dry run, worker pool         *)
(***************************************************************************)
E15 == <<"1", "5">>
E16 == <<"1", "6">>
Ebmse1 == BMSE \o <<"1">>
Ebmst1 == BMST \o <<"1">>
Ebmr15 == BMR \o E15

\* no -m option given
NoCode == <<>>

RunCodes == {E15, E16, Ebmse1, Ebmst1, Ebmr15}
Idents == {determine_doi(c) : c \in RunCodes}

\* what the list_entries API answers for each database, and what the
\* entrylog query answers for the --days window
MacromoleculeListings == {<<>>, <<E15>>}
MetabolomicsListings == {<<>>, <<Ebmse1>>, <<Ebmst1>>}
RecentListings == {<<>>, <<E16>>, <<E16, E15>>}

\* (options, args) = parser.parse_args()
OptionSets ==
    [dry_run : BOOLEAN, days : {0, 7}, override : {NoCode, Ebmr15, Ebmst1},
     database : {"macromolecules", "metabolomics", "both"}]

\* multiprocessing.cpu_count()
cpu_count == 2

NoExit == -1

\* the entries list after the database, --days and --manual steps
select_entries(o, macro, metab, recent) ==
    IF o.override # NoCode THEN <<o.override>>
    ELSE IF o.days # 0 THEN recent
    ELSE IF o.database = "metabolomics" THEN metab
    ELSE IF o.database = "macromolecules" THEN macro
    ELSE macro \o metab

\* the --dry-run flag ignored
IsDryRunIgnored(o) == FALSE

\* if options.dry_run
IsDryRun(o) == o.dry_run

SelectEntries ==
    /\ mainPc = "select"
    /\ \E macro \in MacromoleculeListings, metab \in MetabolomicsListings,
          recent \in RecentListings :
         entries' = select_entries(options, macro, metab, recent)
    /\ mainPc' = "selected"
    /\ UNCHANGED <<options, exitCode, dryLog, task, registry, titles, writeIssued,
                   anvlVars, doiVars, sessionVars>>

\* for en in entries: logger.info("Create or update: %s" % determine_doi(en));
\* sys.exit(0)
DryRun ==
    /\ mainPc = "selected"
    /\ IsDryRun(options)
    /\ dryLog' = [i \in 1..Len(entries) |-> determine_doi(entries[i])]
    /\ exitCode' = 0
    /\ mainPc' = "exit"
    /\ UNCHANGED <<options, entries, task, registry, titles, writeIssued,
                   anvlVars, doiVars, sessionVars>>

\* with multiprocessing.Pool(cpu_count()) as p: p.map(assign_id, entries)
Dispatch ==
    /\ mainPc = "selected"
    /\ ~IsDryRun(options)
    /\ task' = [i \in 1..Len(entries) |-> NewTask(entries[i])]
    /\ mainPc' = "map"
    /\ UNCHANGED <<options, entries, exitCode, dryLog, registry, titles, writeIssued,
                   anvlVars, doiVars, sessionVars>>

Running == {u \in DOMAIN task : task[u].pc \notin {"queued", "done"}}

\* a free worker takes the next entry and runs assign_id on it
StartTask(t) ==
    /\ mainPc = "map"
    /\ t \in DOMAIN task
    /\ task[t].pc = "queued"
    /\ \A u \in 1..(t - 1) : task[u].pc # "queued"
    /\ Cardinality(Running) < cpu_count
    /\ task' = [task EXCEPT ![t] = CallCreateOrUpdate(@)]
    /\ UNCHANGED <<registry, titles, writeIssued, outside>>

\* p.map returns once every task is over and re-raises a task's exception,
\* which ends the script with a traceback
PoolJoin ==
    /\ mainPc = "map"
    /\ \A t \in DOMAIN task : task[t].pc = "done"
    /\ exitCode' = IF \E t \in DOMAIN task : task[t].exc # "none" THEN 1 ELSE 0
    /\ mainPc' = "exit"
    /\ UNCHANGED <<options, entries, dryLog, task, registry, titles, writeIssued,
                   anvlVars, doiVars, sessionVars>>

(***************************************************************************)
(* EZIDSession driven call by call                                         *)
(***************************************************************************)
SessionCodes == {E15, Ebmse1}

SessionIdle == IF task = <<>> THEN TRUE ELSE task[1].pc = "done"

\* EZID.create_or_update_doi(entry)
SessionCreateOrUpdate(entry) ==
    /\ SessionIdle
    /\ calls < MaxCalls
    /\ calls' = calls + 1
    /\ task' = <<CallCreateOrUpdate(NewTask(entry))>>
    /\ UNCHANGED <<posts, lastCall, registry, titles, writeIssued, anvlVars, doiVars,
                   runVars>>

\* EZID.withdraw(entry): the POST, the log line on a status below 300, and
\* raise_for_status()
withdraw(entry) ==
    /\ SessionIdle
    /\ calls < MaxCalls
    /\ calls' = calls + 1
    /\ \E code \in StatusCodes \cup {ConnectionError} :
         /\ Applied(code) => registry[determine_doi(entry)].status # "absent"
         /\ registry' = IF Applied(code)
                        THEN [registry EXCEPT ![determine_doi(entry)] = Withdrawn(@)]
                        ELSE registry
         /\ lastCall' = [op |-> "withdraw",
                         logged |-> code # ConnectionError /\ code < 300,
                         raised |-> IF code = ConnectionError THEN "ConnectionError"
                                    ELSE IF RaiseForStatus(code) THEN "HTTPError"
                                    ELSE "none"]
    /\ posts' = [posts EXCEPT ![determine_doi(entry)] = @ + 1]
    /\ writeIssued' = TRUE
    /\ UNCHANGED <<task, titles, anvlVars, doiVars, runVars>>

\* EZID.get_id(doi): a GET, raise_for_status(), the body
get_id(doi) ==
    /\ SessionIdle
    /\ calls < MaxCalls
    /\ calls' = calls + 1
    /\ lastCall' = [op |-> "get_id", logged |-> FALSE,
                    raised |-> IF registry[doi].status = "absent" THEN "HTTPError"
                               ELSE "none"]
    /\ UNCHANGED <<posts, task, registry, titles, writeIssued, anvlVars, doiVars,
                   runVars>>

\* the entry is revised in the bibliographic database between two calls
ReviseTitle(entry) ==
    /\ SessionIdle
    /\ calls > 0
    /\ titles[entry] = "t1"
    /\ titles' = [titles EXCEPT ![entry] = "t2"]
    /\ UNCHANGED <<task, registry, writeIssued, anvlVars, doiVars, runVars, sessionVars>>

(***************************************************************************)
(* Inputs of the pure functions                                            *)
(***************************************************************************)
Strings(n) == UNION {[1..m -> Alphabet] : m \in 0..n}

RECURSIVE CharsIn(_)
CharsIn(dict) ==
    IF dict = <<>> THEN 0 ELSE Len(dict[1][1]) + Len(dict[1][2]) + CharsIn(Tail(dict))

HasKey(dict, k) == \E i \in 1..Len(dict) : dict[i][1] = k

\* d[k] = v
SetItem ==
    /\ anvlPc = "build"
    /\ Len(d) < MaxPairs
    /\ \E k \in Strings(MaxChars - CharsIn(d)) :
         \E v \in Strings(MaxChars - CharsIn(d) - Len(k)) :
           /\ ~HasKey(d, k)
           /\ d' = DictPut(d, k, v)
    /\ UNCHANGED <<text, result, anvlPc, doiVars, runVars, sessionVars, task, registry,
                   titles, writeIssued>>

EscapeDictionary ==
    /\ anvlPc = "build"
    /\ text' = escape_dictionary(d)
    /\ anvlPc' = "escaped"
    /\ UNCHANGED <<d, result, doiVars, runVars, sessionVars, task, registry, titles,
                   writeIssued>>

UnescapeDictionary ==
    /\ anvlPc = "escaped"
    /\ result' = unescape_dictionary(text)
    /\ anvlPc' = "unescaped"
    /\ UNCHANGED <<d, text, doiVars, runVars, sessionVars, task, registry, titles,
                   writeIssued>>

Digits == {"0", "1", "5"}
Numbers == UNION {[1..m -> Digits] : m \in 1..MaxDigits}

\* the accession codes of a batch: a bare number, or one prefixed bmr, bmse, bmst
AccessionCodes == {prefix \o n : prefix \in {<<>>, BMR, BMSE, BMST}, n \in Numbers}

NoDoi == <<>>

DetermineDoiA ==
    /\ codeA \in AccessionCodes
    /\ doiA = NoDoi
    /\ doiA' = determine_doi(codeA)
    /\ UNCHANGED <<codeA, codeB, doiB, anvlVars, runVars, sessionVars, task, registry,
                   titles, writeIssued>>

DetermineDoiB ==
    /\ codeB \in AccessionCodes
    /\ doiB = NoDoi
    /\ doiB' = determine_doi(codeB)
    /\ UNCHANGED <<codeA, codeB, doiA, anvlVars, runVars, sessionVars, task, registry,
                   titles, writeIssued>>

(***************************************************************************)
(* Specifications                                                          *)
(***************************************************************************)
AnvlOff ==
    /\ d = <<>> /\ text = <<>> /\ anvlPc = "off"
    /\ result = [raised |-> "none", value |-> <<>>]

DoiOff == codeA = <<>> /\ codeB = <<>> /\ doiA = NoDoi /\ doiB = NoDoi

RunOff ==
    /\ options = [dry_run |-> FALSE, days |-> 0, override |-> NoCode, database |-> "both"]
    /\ entries = <<>> /\ mainPc = "off" /\ exitCode = NoExit /\ dryLog = <<>>

SessionOff ==
    /\ calls = 0 /\ posts = [i \in Idents |-> 0]
    /\ lastCall = [op |-> "none", logged |-> FALSE, raised |-> "none"]

RegistryEmpty ==
    /\ task = <<>> /\ registry = [i \in Idents |-> Absent]
    /\ titles = [c \in RunCodes |-> "t1"] /\ writeIssued = FALSE

\* one run of the script
Init ==
    /\ options \in OptionSets
    /\ entries = <<>> /\ mainPc = "select" /\ exitCode = NoExit /\ dryLog = <<>>
    /\ RegistryEmpty /\ SessionOff /\ AnvlOff /\ DoiOff

TaskStep(t) ==
    \/ GetEntryMetadata(t)
    \/ PutMetadata(t)
    \/ PutDoi(t)
    \/ ExceptHTTPError(t)
    \/ ExceptIOError(t)
    \/ Finally(t)
    \/ Return(t)

Next ==
    \/ SelectEntries
    \/ DryRun
    \/ Dispatch
    \/ PoolJoin
    \/ \E t \in 1..2 : StartTask(t) \/ TaskStep(t)

Spec == Init /\ [][Next]_vars

\* an EZIDSession whose methods are called one after another
InitSession == RegistryEmpty /\ SessionOff /\ RunOff /\ AnvlOff /\ DoiOff

NextSession ==
    \/ \E entry \in SessionCodes :
         \/ SessionCreateOrUpdate(entry)
         \/ withdraw(entry)
         \/ get_id(determine_doi(entry))
         \/ ReviseTitle(entry)
    \/ TaskStep(1)

SpecSession == InitSession /\ [][NextSession]_vars

\* escape_dictionary then unescape_dictionary on every bounded mapping
InitAnvl ==
    /\ d = <<>> /\ text = <<>> /\ anvlPc = "build"
    /\ result = [raised |-> "none", value |-> <<>>]
    /\ RegistryEmpty /\ SessionOff /\ RunOff /\ DoiOff

NextAnvl == SetItem \/ EscapeDictionary \/ UnescapeDictionary

SpecAnvl == InitAnvl /\ [][NextAnvl]_vars

\* determine_doi on every pair of bounded accession codes
InitDoi ==
    /\ codeA \in AccessionCodes /\ codeB \in AccessionCodes
    /\ doiA = NoDoi /\ doiB = NoDoi
    /\ RegistryEmpty /\ SessionOff /\ RunOff /\ AnvlOff

NextDoi == DetermineDoiA \/ DetermineDoiB

SpecDoi == InitDoi /\ [][NextDoi]_vars

(***************************************************************************)
(* Properties                                                              *)
(***************************************************************************)
DoiOf(t) == determine_doi(task[t].entry)

\* a write request was sent by task t in this step
SentWrite(t) == t \in DOMAIN task' /\ Len(task'[t].reqs) > Len(task[t].reqs)

\* C1: create_or_update_doi sends no registry write (metadata PUT or doi PUT)
\* while the document it just built and the target URL are field-equal to the
\* record the registry holds for the identifier.
C1_NoWriteWhenCurrent ==
    [][\A t \in DOMAIN task :
         SentWrite(t) =>
           ~FieldEqual(registry[DoiOf(t)], task[t].entry_meta, content_url(task[t].entry))]_vars

\* C2: no failure met while processing an entry leaves assign_id as an
\* exception: every dispatched entry ends in a logged outcome.
C2_NoFailureLeavesTheTask ==
    \A t \in DOMAIN task : task[t].exc = "none" /\ task[t].outcome # "raised"

\* C3: a request failure of either transient kind (HTTP error status, network
\* failure) met while the delay is within the cap is followed by the backoff
\* sleep of the current delay and a further attempt.
C3_TransientFailureRetried ==
    [][\A t \in DOMAIN task :
         (/\ task[t].fail \in {"http", "network"}
          /\ RetryAllowed(task[t].timeout)
          /\ t \in DOMAIN task'
          /\ task'[t] # task[t])
         => (/\ task'[t].attempts = task[t].attempts + 1
             /\ task'[t].lastSleep = task[t].timeout)]_vars

TotalBackoffBound == 2 * MaxWait - 2 * BaseDelay

RECURSIVE CeilLog2(_)
CeilLog2(n) == IF n <= 1 THEN 0 ELSE 1 + CeilLog2((n + 1) \div 2)

MaxAttempts == CeilLog2(MaxWait \div BaseDelay) + 1

\* C5: one top-level call makes at most ceil(log2(cap / base delay)) + 1 = 8
\* attempts, never stops short of returning, and once the budget is spent it
\* has logged the terminal failure exactly once and raises nothing.
C5_AtMostEightAttempts ==
    \A t \in DOMAIN task :
        /\ task[t].attempts <= MaxAttempts
        /\ MaxAttempts = 8
        /\ task[t].pc \notin {"queued", "done"} => ENABLED TaskStep(t)
        /\ (task[t].pc \in {"finally", "unwound"} /\ task[t].fail = "http")
             => (/\ task[t].attempts = MaxAttempts
                 /\ task[t].errors = 1
                 /\ task[t].exc = "none"
                 /\ task[t].created = 0)
        /\ task[t].outcome = "failed" => task[t].exc = "none"

C5_Witness ==
    \E t \in DOMAIN task :
        /\ task[t].pc = "unwound" /\ task[t].outcome = "failed"
        /\ task[t].attempts = 8 /\ task[t].errors = 1

\* C6: a withdraw on an entry whose record is already 'unavailable' sends no
\* status-transition write.
C6_WithdrawIdempotent ==
    [][\A i \in Idents : posts'[i] > posts[i] => registry[i].status # "unavailable"]_vars

BothDetermined == doiA # NoDoi /\ doiB # NoDoi

\* C7 as stated: two different accession codes never get the same identifier.
C7_DistinctCodesDistinctDois == (BothDetermined /\ codeA # codeB) => doiA # doiB

\* one code is the other, a bare number, prefixed with bmr
BmrAlias(a, b) == b \in Numbers /\ a = BMR \o b

\* C7 amended: two different accession codes get the same identifier exactly
\* when one is a bare number and the other is that number prefixed with bmr.
C7_SharedOnlyByBmrAlias ==
    (BothDetermined /\ codeA # codeB)
        => ((doiA = doiB) <=> (BmrAlias(codeA, codeB) \/ BmrAlias(codeB, codeA)))

C7_Witness == BothDetermined /\ BmrAlias(codeA, codeB) /\ doiA = doiB

\* C8 as stated: unescape_dictionary(escape_dictionary(d)) == d for every d.
C8_RoundTrip ==
    anvlPc = "unescaped" => (result.raised = "none" /\ DictEq(result.value, d))

\* no leading or trailing whitespace, and no line boundary that escape_string
\* leaves raw
Clean(s) ==
    /\ strip(s) = s
    /\ \A i \in 1..Len(s) : s[i] \notin (LineBoundaries \ {CR, LF})

AllClean(dict) == \A i \in 1..Len(dict) : Clean(dict[i][1]) /\ Clean(dict[i][2])

\* C8 amended: the round trip returns d when no key or value of d begins or
\* ends with whitespace or holds a line boundary other than CR and LF.
C8_RoundTripOfCleanMapping ==
    (anvlPc = "unescaped" /\ AllClean(d))
        => (result.raised = "none" /\ DictEq(result.value, d))

C8_Witness ==
    /\ anvlPc = "unescaped" /\ AllClean(d) /\ Len(d) = 2
    /\ \A i \in 1..Len(d) : \E j \in 1..Len(d[i][2]) : d[i][2][j] \in Reserved

\* C9: a dry run sends no registry write, dispatches nothing to the pool, logs
\* the derived identifier of every selected entry and exits with code 0.
C9_DryRunWritesNothing ==
    options.dry_run =>
        /\ ~writeIssued
        /\ task = <<>>
        /\ mainPc # "map"
        /\ \A i \in Idents : registry[i] = Absent
        /\ mainPc = "exit" =>
             /\ exitCode = 0
             /\ Len(dryLog) = Len(entries)
             /\ \A i \in 1..Len(entries) : dryLog[i] = determine_doi(entries[i])

C9_Witness == options.dry_run /\ mainPc = "exit" /\ Len(entries) = 2 /\ exitCode = 0

\* a response that is no error: it arrived, with a status below 400
Succeeded(req) == req[2] # ConnectionError /\ req[2] < 400

\* C10: in every attempt the doi PUT follows a metadata PUT of the same
\* attempt that succeeded, a retry starts with no request sent, and the
\* success message is logged at most once and only after both PUTs of one
\* attempt succeeded.
C10_WritesOrdered ==
    \A t \in DOMAIN task :
        LET r == task[t].reqs
        IN  /\ Len(r) <= 2
            /\ Len(r) >= 1 => r[1][1] = "PUT metadata"
            /\ Len(r) = 2 => (r[2][1] = "PUT doi" /\ Succeeded(r[1]))
            /\ task[t].pc = "get_entry_metadata" => r = <<>>
            /\ task[t].created <= 1
            /\ task[t].created = 1 =>
                 (Len(r) = 2 /\ Succeeded(r[1]) /\ Succeeded(r[2]) /\ task[t].fail = "none")

C10_Witness ==
    \E t \in DOMAIN task :
        task[t].created = 1 /\ task[t].attempts >= 2 /\ task[t].pc = "finally"

=============================================================================
